---- MODULE Spec2Model ----
(***************************************************************************)
(* A model of astrbot_plugin_jx3: the shared HTTP client (AsyncHttpUtil),  *)
(* the cron scheduler (CronSchedulerUtil) and the plugin's result handling *)
(* and change detection (Jx3Plugin).  Every action is one run of a         *)
(* coroutine between two suspension points of the asyncio event loop.      *)
(***************************************************************************)
EXTENDS Integers, Sequences, FiniteSets, TLC

(* ------------------------------ bounds -------------------------------- *)

\* logical requests (calls of AsyncHttpUtil.get/post) in one run
NumRequests == 2
\* calls of AsyncHttpUtil.close() in one run
MaxCloses == 1
\* calls of CronSchedulerUtil.add_task() in one run
MaxTasks == 2
\* calls of CronSchedulerUtil.stop() in one run
MaxStops == 2
\* the clock runs from minute 0 to minute MaxTime
MaxTime == 2
\* runs of the plugin's jobs and commands in one run
NumExecs == 2
\* groups in the plugin's subscriber list
NumSubscribers == 2

(* ------------------------- program constants -------------------------- *)

\* AsyncHttpUtil._max_retries
max_retries == 3
\* AsyncHttpUtil._base_retry_delay, in milliseconds
base_retry_delay == 500

(* ------------------------------ inputs -------------------------------- *)

Requests == 1..NumRequests
\* HTTP statuses a server may answer with, around the bounds of [200,300)
Statuses == {199, 200, 299, 300}
\* decoded JSON bodies
Bodies == {"b1", "b2"}
\* random.uniform(0, 0.1), in milliseconds
Jitters == {0, 99}
\* the exceptions of the first except clause of _request
RetryableErrors == {"ClientConnectionError", "ClientPayloadError", "TimeoutError"}
None == "None"
Workers == 1..MaxTasks
Stops == 1..MaxStops
\* cron expressions: every minute, every even minute, and one that croniter
\* rejects (its minute field is out of range)
CronExprs == {"* * * * *", "*/2 * * * *", "61 * * * *"}
\* the expressions handed to add_task
TaskCronExprs == {"* * * * *", "61 * * * *"}
Execs == 1..NumExecs
\* what is run: the three jobs (no event) and a command such as daily (event)
Kinds == {"skill_info", "server_on_status", "server_off_status", "command"}
\* data[0]["id"] of /data/skills/records
Ids == {"A1", "B2"}
\* data of /data/server/check
ServerStates == [time : {1, 2}, status : {0, 1}]
\* Jx3Plugin._subscriber
subscriber == [i \in 1..NumSubscribers |-> i]

VARIABLES
    session,      \* AsyncHttpUtil._session: 0 is None, else a session's id
    created,      \* number of ClientSession objects constructed so far
    open,         \* ids of the sessions whose .closed is False
    locked,       \* _session_lock is held (by a close() awaiting session.close())
    closes,       \* calls of close() so far
    rpc,          \* each request's position in _request
    retries,      \* each request's local variable retries
    status,       \* resp.status of the attempt whose body is being read, else 0
    decoded,      \* history: the body resp.json() decoded for the request
    delay,        \* the backoff delay being slept, in milliseconds
    result,       \* what _request gave its caller: [kind, value]
    attempts,     \* history: calls of session.request made for the request
    failures,     \* history: retryable failures caught for the request
    met,          \* history: the kind of the last failure an attempt met
    sleeps,       \* history: backoff sleeps begun by the request
    waited,       \* history: milliseconds of backoff the request has slept,
                  \* each sleep counted in whole tenths of a second
    now,          \* datetime.now(), in minutes
    tasks,        \* CronSchedulerUtil.tasks: (job_func, cron_expr) per add_task
    task_handles, \* CronSchedulerUtil.task_handles: the workers' asyncio tasks
    wpc,          \* each worker's position in _cron_worker
    cursor,       \* each worker's croniter cursor (the last get_next result)
    seed,         \* history: the cursor the last get_next started from, or -1
    cancelReq,    \* cancel() was called on the worker and is not yet delivered
    running,      \* executions of the worker's job in progress
    spc,          \* each stop() call's position
    gathered,     \* the handles a suspended stop() call is gathering
    covered,      \* number of tasks registered when the suspended stop() was called
    stopped,      \* history: most tasks registered at the call of a returned stop()
    last_skill_info_id,  \* _scheduler_status["last_skill_info_id"]
    last_server_status,  \* _scheduler_status["last_server_status"]
    skillStores,  \* history: assignments made to last_skill_info_id
    serverStores, \* history: assignments made to last_server_status
    kind,         \* what each execution runs
    epc,          \* each execution's position in result_handler
    fate,         \* how the execution ended: "returned" or "raised"
    chain,        \* length of the list the success handler returned
    sends,        \* send_message calls made with the result chain
    errMsgs,      \* send_message calls made by _return_error_msg
    cause,        \* history: the failure the execution met, or "none"
    observed,     \* history: the data its success handler was called with
    obs,          \* history: the branch its data_handler took
    basis,        \* history: the assignments made before its data_handler read
    overlapped    \* history: another execution of the same kind was in progress
                  \* when its data_handler ran

httpVars == <<session, created, open, locked, closes, rpc, retries, status,
              decoded, delay, result, attempts, failures, met, sleeps, waited>>

schedVars == <<now, tasks, task_handles, wpc, cursor, seed, cancelReq, running,
               spc, gathered, covered, stopped>>

plugVars == <<last_skill_info_id, last_server_status, skillStores, serverStores,
              kind, epc, fate, chain, sends, errMsgs, cause, observed, obs, basis,
              overlapped>>

vars == <<httpVars, schedVars, plugVars>>

\* what an action of one component leaves alone: the other components
nonHttp == <<schedVars, plugVars>>
nonSched == <<httpVars, plugVars>>
nonPlug == <<httpVars, schedVars>>

(* =========================== AsyncHttpUtil =========================== *)

Pow2(n) == IF n = 0 THEN 1 ELSE IF n = 1 THEN 2 ELSE IF n = 2 THEN 4 ELSE 8

\* the range check of line 73 with its upper bound included
StatusOk_UpperInclusive(s) == 200 <= s /\ s <= 300

\* line 73: 200 <= resp.status < 300
StatusOk(s) == 200 <= s /\ s < 300

\* the check of line 61 left out: every request constructs a session
NeedSession_Always == TRUE

\* line 61: cls._session is None or cls._session.closed
\* the test of line 61 without its second half
NeedSession_OnlyIfNone == session = 0

NeedSession == session = 0 \/ session \notin open

\* a delay growing by base_retry_delay with each retry instead of doubling
BackoffDelay_Linear(n, jitter) == base_retry_delay * (n + 1) + jitter

\* line 85: _base_retry_delay * (2 ** retries) + random.uniform(0, 0.1)
BackoffDelay(n, jitter) == base_retry_delay * Pow2(n) + jitter

\* the loop condition of line 68 off by one
MayAttempt_Inclusive(n) == n <= max_retries

\* line 68: while retries < cls._max_retries
MayAttempt(n) == n < max_retries

Pending == [kind |-> "pending", value |-> None]
Returned(v) == [kind |-> "returned", value |-> v]
Raised(e) == [kind |-> "raised", value |-> e]

InitHttp ==
    /\ session = 0
    /\ created = 0
    /\ open = {}
    /\ locked = FALSE
    /\ closes = 0
    /\ rpc = [r \in Requests |-> "idle"]
    /\ retries = [r \in Requests |-> 0]
    /\ status = [r \in Requests |-> 0]
    /\ decoded = [r \in Requests |-> None]
    /\ delay = [r \in Requests |-> 0]
    /\ result = [r \in Requests |-> Pending]
    /\ attempts = [r \in Requests |-> 0]
    /\ failures = [r \in Requests |-> 0]
    /\ met = [r \in Requests |-> "none"]
    /\ sleeps = [r \in Requests |-> 0]
    /\ waited = [r \in Requests |-> 0]

\* lines 70-72: cls._session.request(...) is called.  A closed session refuses
\* the call with a RuntimeError, which the second except clause re-raises.
IssueAttempt(r) ==
    /\ attempts' = [attempts EXCEPT ![r] = @ + 1]
    /\ IF session' \in open'
         THEN /\ rpc' = [rpc EXCEPT ![r] = "send"]
              /\ result' = result
         ELSE /\ rpc' = [rpc EXCEPT ![r] = "done"]
              /\ result' = [result EXCEPT ![r] = Raised("RuntimeError")]

\* get/post -> _request, lines 59-72: the lock is taken (the caller waits
\* while a close() holds it), the session is created when there is none or
\* it is closed, and the first attempt is issued.
RequestStart(r) ==
    /\ rpc[r] = "idle"
    /\ ~locked
    /\ IF NeedSession
         THEN /\ created' = created + 1
              /\ session' = created + 1
              /\ open' = open \cup {created + 1}
         ELSE UNCHANGED <<session, created, open>>
    /\ retries' = [retries EXCEPT ![r] = 0]
    /\ IssueAttempt(r)
    /\ UNCHANGED <<locked, closes, status, decoded, delay, failures, met, sleeps, waited>>
    /\ UNCHANGED nonHttp

\* lines 70-73: the response's status line and headers arrive
ResponseArrives(r) ==
    /\ rpc[r] = "send"
    /\ \E s \in Statuses : status' = [status EXCEPT ![r] = s]
    /\ rpc' = [rpc EXCEPT ![r] = "body"]
    /\ UNCHANGED <<session, created, open, locked, closes, retries, decoded,
                   delay, result, attempts, failures, met, sleeps, waited>>
    /\ UNCHANGED nonHttp

\* lines 73-78: the body is read.  With a status in [200,300) resp.json()
\* decodes it and the decoded body is returned; with any other status
\* resp.text() is read and ClientResponseError is raised, which is not one of
\* the retryable exceptions and is re-raised at lines 89-91.
ResponseRead(r) ==
    /\ rpc[r] = "body"
    /\ rpc' = [rpc EXCEPT ![r] = "done"]
    /\ IF StatusOk(status[r])
         THEN \E b \in Bodies :
                 /\ decoded' = [decoded EXCEPT ![r] = b]
                 /\ result' = [result EXCEPT ![r] = Returned(b)]
         ELSE /\ decoded' = decoded
              /\ result' = [result EXCEPT ![r] = Raised("ClientResponseError")]
    /\ status' = [status EXCEPT ![r] = 0]
    /\ UNCHANGED <<session, created, open, locked, closes, retries, delay,
                   attempts, failures, met, sleeps, waited>>
    /\ UNCHANGED nonHttp

\* the except clause sleeping only when another attempt is to follow: the
\* failure of the last attempt ends the request at once
RetryableFailure_NoSleepOnLast(r) ==
    /\ rpc[r] \in {"send", "body"}
    /\ status' = [status EXCEPT ![r] = 0]
    /\ failures' = [failures EXCEPT ![r] = @ + 1]
    /\ met' = [met EXCEPT ![r] = "retryable"]
    /\ waited' = waited
    /\ IF MayAttempt(retries[r] + 1)
         THEN /\ \E e \in RetryableErrors, j \in Jitters :
                    /\ e = "ClientPayloadError" => rpc[r] = "body"
                    /\ delay' = [delay EXCEPT ![r] = BackoffDelay(retries[r], j)]
              /\ rpc' = [rpc EXCEPT ![r] = "sleep"]
              /\ sleeps' = [sleeps EXCEPT ![r] = @ + 1]
              /\ UNCHANGED <<retries, result>>
         ELSE /\ rpc' = [rpc EXCEPT ![r] = "done"]
              /\ retries' = [retries EXCEPT ![r] = @ + 1]
              /\ result' = [result EXCEPT ![r] = Returned(None)]
              /\ UNCHANGED <<delay, sleeps>>
    /\ UNCHANGED <<session, created, open, locked, closes, decoded, attempts>>
    /\ UNCHANGED nonHttp

\* lines 79-87: the attempt (the request itself, or the reading of the body)
\* fails with one of the retryable exceptions; the delay is computed and the
\* backoff sleep begins
RetryableFailure(r) ==
    /\ rpc[r] \in {"send", "body"}
    /\ \E e \in RetryableErrors, j \in Jitters :
          /\ e = "ClientPayloadError" => rpc[r] = "body"
          /\ delay' = [delay EXCEPT ![r] = BackoffDelay(retries[r], j)]
    /\ rpc' = [rpc EXCEPT ![r] = "sleep"]
    /\ status' = [status EXCEPT ![r] = 0]
    /\ failures' = [failures EXCEPT ![r] = @ + 1]
    /\ met' = [met EXCEPT ![r] = "retryable"]
    /\ sleeps' = [sleeps EXCEPT ![r] = @ + 1]
    /\ waited' = waited
    /\ UNCHANGED <<session, created, open, locked, closes, retries, decoded,
                   result, attempts>>
    /\ UNCHANGED nonHttp

\* any other exception of the attempt handled as the retryable ones are
UnexpectedFailure_Retried(r) ==
    /\ rpc[r] \in {"send", "body"}
    /\ rpc' = [rpc EXCEPT ![r] = "sleep"]
    /\ result' = result
    /\ status' = [status EXCEPT ![r] = 0]
    /\ met' = [met EXCEPT ![r] = "unexpected"]
    /\ \E j \in Jitters : delay' = [delay EXCEPT ![r] = BackoffDelay(retries[r], j)]
    /\ sleeps' = [sleeps EXCEPT ![r] = @ + 1]
    /\ UNCHANGED <<session, created, open, locked, closes, retries, decoded,
                   attempts, failures, waited>>
    /\ UNCHANGED nonHttp

\* lines 89-91: any other exception of the attempt is logged and re-raised
UnexpectedFailure(r) ==
    /\ rpc[r] \in {"send", "body"}
    /\ rpc' = [rpc EXCEPT ![r] = "done"]
    /\ result' = [result EXCEPT ![r] = Raised("Exception")]
    /\ status' = [status EXCEPT ![r] = 0]
    /\ met' = [met EXCEPT ![r] = "unexpected"]
    /\ UNCHANGED <<session, created, open, locked, closes, retries, decoded,
                   delay, attempts, failures, sleeps, waited>>
    /\ UNCHANGED nonHttp

\* the end of the loop raising instead of returning None
BackoffEnds_RaiseOnExhaustion(r) ==
    /\ rpc[r] = "sleep"
    /\ retries' = [retries EXCEPT ![r] = @ + 1]
    /\ delay' = [delay EXCEPT ![r] = 0]
    /\ waited' = [waited EXCEPT ![r] = @ + (delay[r] \div 100) * 100]
    /\ UNCHANGED <<session, created, open>>
    /\ IF MayAttempt(retries'[r])
         THEN IssueAttempt(r)
         ELSE /\ rpc' = [rpc EXCEPT ![r] = "done"]
              /\ result' = [result EXCEPT ![r] = Raised("Exception")]
              /\ UNCHANGED attempts
    /\ UNCHANGED <<locked, closes, status, decoded, failures, met, sleeps>>
    /\ UNCHANGED nonHttp

\* the loop with lines 59-65 inside it: the session is checked under the lock
\* before every attempt and created again when it is closed
BackoffEnds_RechecksSession(r) ==
    /\ rpc[r] = "sleep"
    /\ ~locked
    /\ retries' = [retries EXCEPT ![r] = @ + 1]
    /\ delay' = [delay EXCEPT ![r] = 0]
    /\ waited' = [waited EXCEPT ![r] = @ + (delay[r] \div 100) * 100]
    /\ IF MayAttempt(retries'[r])
         THEN /\ IF NeedSession
                   THEN /\ created' = created + 1
                        /\ session' = created + 1
                        /\ open' = open \cup {created + 1}
                   ELSE UNCHANGED <<session, created, open>>
              /\ IssueAttempt(r)
         ELSE /\ rpc' = [rpc EXCEPT ![r] = "done"]
              /\ result' = [result EXCEPT ![r] = Returned(None)]
              /\ UNCHANGED <<attempts, session, created, open>>
    /\ UNCHANGED <<locked, closes, status, decoded, failures, met, sleeps>>
    /\ UNCHANGED nonHttp

\* lines 87-88, 68, 92-93: the sleep ends, retries is incremented, and the
\* loop either issues the next attempt or ends and returns None
BackoffEnds(r) ==
    /\ rpc[r] = "sleep"
    /\ retries' = [retries EXCEPT ![r] = @ + 1]
    /\ delay' = [delay EXCEPT ![r] = 0]
    /\ waited' = [waited EXCEPT ![r] = @ + (delay[r] \div 100) * 100]
    /\ UNCHANGED <<session, created, open>>
    /\ IF MayAttempt(retries'[r])
         THEN IssueAttempt(r)
         ELSE /\ rpc' = [rpc EXCEPT ![r] = "done"]
              /\ result' = [result EXCEPT ![r] = Returned(None)]
              /\ UNCHANGED attempts
    /\ UNCHANGED <<locked, closes, status, decoded, failures, met, sleeps>>
    /\ UNCHANGED nonHttp

\* close(), lines 27-29: the lock is taken; an open session starts closing
\* (the lock stays held across the await), otherwise close() is over.  The
\* session reports closed from the call of session.close() on, or only from
\* its completion on.
CloseBegin ==
    /\ closes < MaxCloses
    /\ ~locked
    /\ closes' = closes + 1
    /\ IF session # 0 /\ session \in open
         THEN /\ locked' = TRUE
              /\ \E atOnce \in BOOLEAN :
                    open' = IF atOnce THEN open \ {session} ELSE open
         ELSE UNCHANGED <<locked, open>>
    /\ UNCHANGED <<session, created, rpc, retries, status, decoded, delay,
                   result, attempts, failures, met, sleeps, waited>>
    /\ UNCHANGED nonHttp

\* close(), lines 29-30: session.close() completes and the lock is released
CloseEnd ==
    /\ locked
    /\ open' = open \ {session}
    /\ locked' = FALSE
    /\ UNCHANGED <<session, created, closes, rpc, retries, status, decoded,
                   delay, result, attempts, failures, met, sleeps, waited>>
    /\ UNCHANGED nonHttp

NextHttp ==
    \/ \E r \in Requests : RequestStart(r)
    \/ \E r \in Requests : ResponseArrives(r)
    \/ \E r \in Requests : ResponseRead(r)
    \/ \E r \in Requests : RetryableFailure(r)
    \/ \E r \in Requests : UnexpectedFailure(r)
    \/ \E r \in Requests : BackoffEnds(r)
    \/ CloseBegin
    \/ CloseEnd

(* ========================= CronSchedulerUtil ========================= *)

\* croniter(cron_expr, ...) accepts the expression (line 58)
ValidCron(c) == c \in {"* * * * *", "*/2 * * * *"}

\* minute t matches the expression
Matches(c, t) == IF c = "*/2 * * * *" THEN t % 2 = 0 ELSE TRUE

\* get_next giving the second matching instant after cur
NextFire_SkipsOne(c, cur) ==
    CHOOSE t \in (cur + 2)..(cur + 3) :
        Matches(c, t) /\ \A u \in (cur + 2)..(t - 1) : ~Matches(c, u)

\* line 63, cron.get_next(datetime): the earliest matching instant after cur
NextFire(c, cur) ==
    CHOOSE t \in (cur + 1)..(cur + 2) :
        Matches(c, t) /\ \A u \in (cur + 1)..(t - 1) : ~Matches(c, u)

Terminated(w) == wpc[w] \in {"returned", "cancelled", "failed"}

\* sd is the cursor the run's last get_next started from, or -1 when the run
\* computed no fire time
Outcome(pc, cur, fired, sd) ==
    [pc |-> pc, cursor |-> cur, fired |-> fired, seed |-> sd]

\* lines 60-74, one run of the loop from the top of an iteration to the next
\* suspension: get_next moves the cursor; a fire time still ahead is slept
\* for (line 68), one that is not is dispatched at once (line 69) and the
\* loop goes round; an error of get_next or of create_task leads to the pause
\* of line 74.  The result is every (position, cursor, jobs spawned) the run
\* can end with.
RECURSIVE LoopOutcomes(_, _, _, _, _)
LoopOutcomes(c, cur, t, fired, sd) ==
    LET nx == NextFire(c, cur) IN
    {Outcome("pause", cur, fired, sd)}
    \cup (IF nx > t
            THEN {Outcome("sleep", nx, fired, cur)}
            ELSE {Outcome("pause", nx, fired, cur)}
                 \cup LoopOutcomes(c, nx, t, fired + 1, cur))

InitSched ==
    /\ now = 0
    /\ tasks = << >>
    /\ task_handles = << >>
    /\ wpc = [w \in Workers |-> "none"]
    /\ cursor = [w \in Workers |-> 0]
    /\ seed = [w \in Workers |-> -1]
    /\ cancelReq = [w \in Workers |-> FALSE]
    /\ running = [w \in Workers |-> 0]
    /\ spc = [s \in Stops |-> "idle"]
    /\ gathered = [s \in Stops |-> {}]
    /\ covered = [s \in Stops |-> 0]
    /\ stopped = 0

\* add_task, lines 25-26, and _start_single_task, lines 45-46: the task is
\* recorded, the worker's asyncio task is created and its handle kept.  The
\* expression is not looked at here.
AddTask(c) ==
    /\ Len(tasks) < MaxTasks
    /\ LET w == Len(tasks) + 1 IN
          /\ tasks' = Append(tasks, [job_func |-> w, cron_expr |-> c])
          /\ task_handles' = Append(task_handles, w)
          /\ wpc' = [wpc EXCEPT ![w] = "created"]
    /\ UNCHANGED <<now, cursor, seed, cancelReq, running, spc, gathered, covered,
                   stopped>>
    /\ UNCHANGED nonSched

\* the worker with an error of the loop ending its task instead of pausing it
Resume_ErrorEndsWorker(w, o) ==
    /\ wpc' = [wpc EXCEPT ![w] = IF o.pc = "pause" THEN "failed" ELSE o.pc]
    /\ cursor' = [cursor EXCEPT ![w] = o.cursor]
    /\ seed' = [seed EXCEPT ![w] = IF o.seed = -1 THEN @ ELSE o.seed]
    /\ running' = [running EXCEPT ![w] = @ + o.fired]

\* the worker goes on after a run of its loop
Resume(w, o) ==
    /\ wpc' = [wpc EXCEPT ![w] = o.pc]
    /\ cursor' = [cursor EXCEPT ![w] = o.cursor]
    /\ seed' = [seed EXCEPT ![w] = IF o.seed = -1 THEN @ ELSE o.seed]
    /\ running' = [running EXCEPT ![w] = @ + o.fired]

\* _cron_worker, lines 58-68: the worker's task runs for the first time.
\* croniter(cron_expr, datetime.now()) raises on an expression it rejects,
\* outside the try, which ends the task; otherwise the loop is entered.
WorkerStart(w) ==
    /\ wpc[w] = "created"
    /\ ~cancelReq[w]
    /\ IF ValidCron(tasks[w].cron_expr)
         THEN \E o \in LoopOutcomes(tasks[w].cron_expr, now, now, 0, -1) : Resume(w, o)
         ELSE /\ wpc' = [wpc EXCEPT ![w] = "failed"]
              /\ UNCHANGED <<cursor, seed, running>>
    /\ UNCHANGED <<now, tasks, task_handles, cancelReq, spc, gathered, covered,
                   stopped>>
    /\ UNCHANGED nonSched

\* the worker awaiting the job it spawned: it goes on only when no execution
\* of its job is in progress
WorkerWake_AwaitsJob(w) ==
    /\ wpc[w] = "sleep"
    /\ running[w] = 0
    /\ ~cancelReq[w]
    /\ now >= cursor[w]
    /\ \E o \in {Outcome("pause", cursor[w], 0, -1)}
               \cup LoopOutcomes(tasks[w].cron_expr, cursor[w], now, 1, -1) :
          Resume(w, o)
    /\ UNCHANGED <<now, tasks, task_handles, cancelReq, spc, gathered, covered,
                   stopped>>
    /\ UNCHANGED nonSched

\* lines 68-69 and on: the sleep is over (at the fire time or later), the job
\* is spawned with create_task and not awaited, and the loop goes round
WorkerWake(w) ==
    /\ wpc[w] = "sleep"
    /\ ~cancelReq[w]
    /\ now >= cursor[w]
    /\ \E o \in {Outcome("pause", cursor[w], 0, -1)}
               \cup LoopOutcomes(tasks[w].cron_expr, cursor[w], now, 1, -1) :
          Resume(w, o)
    /\ UNCHANGED <<now, tasks, task_handles, cancelReq, spc, gathered, covered,
                   stopped>>
    /\ UNCHANGED nonSched

\* line 74 and on: the pause after an error is over, the loop goes round
PauseEnds(w) ==
    /\ wpc[w] = "pause"
    /\ ~cancelReq[w]
    /\ \E o \in LoopOutcomes(tasks[w].cron_expr, cursor[w], now, 0, -1) : Resume(w, o)
    /\ UNCHANGED <<now, tasks, task_handles, cancelReq, spc, gathered, covered,
                   stopped>>
    /\ UNCHANGED nonSched

\* the worker with a CancelledError raised in either sleep taken for an
\* error of the loop: it is logged and the loop goes on after the pause
WorkerCancelled_CaughtAsError(w) ==
    /\ cancelReq[w]
    /\ wpc[w] \in {"created", "sleep", "pause"}
    /\ wpc' = [wpc EXCEPT ![w] = IF wpc[w] = "created" THEN "cancelled"
                                                       ELSE "pause"]
    /\ cancelReq' = [cancelReq EXCEPT ![w] = FALSE]
    /\ UNCHANGED <<now, tasks, task_handles, cursor, seed, running, spc, gathered,
                   covered, stopped>>
    /\ UNCHANGED nonSched

\* the worker's task is resumed with CancelledError: before its first run the
\* task ends cancelled; in the sleep of line 68 the error is caught and the
\* loop left (lines 70-71); in the pause of line 74 it ends the task
WorkerCancelled(w) ==
    /\ cancelReq[w]
    /\ wpc[w] \in {"created", "sleep", "pause"}
    /\ wpc' = [wpc EXCEPT ![w] = IF wpc[w] = "sleep" THEN "returned"
                                                     ELSE "cancelled"]
    /\ cancelReq' = [cancelReq EXCEPT ![w] = FALSE]
    /\ cursor' = [cursor EXCEPT ![w] = 0]
    /\ seed' = [seed EXCEPT ![w] = -1]
    /\ UNCHANGED <<now, tasks, task_handles, running, spc, gathered, covered,
                   stopped>>
    /\ UNCHANGED nonSched

\* an execution spawned at line 69 ends, by returning or by raising
JobEnds(w) ==
    /\ running[w] > 0
    /\ running' = [running EXCEPT ![w] = @ - 1]
    /\ UNCHANGED <<now, tasks, task_handles, wpc, cursor, seed, cancelReq, spc,
                   gathered, covered, stopped>>
    /\ UNCHANGED nonSched

\* time passes
Tick ==
    /\ now < MaxTime
    /\ now' = now + 1
    /\ UNCHANGED <<tasks, task_handles, wpc, cursor, seed, cancelReq, running, spc,
                   gathered, covered, stopped>>
    /\ UNCHANGED nonSched

Handles == {task_handles[i] : i \in 1..Len(task_handles)}

\* stop() cancelling the executions of the jobs along with the workers
StopBegin_CancelsJobs(s) ==
    /\ spc[s] = "idle"
    /\ \A s2 \in Stops : s2 < s => spc[s2] # "idle"
    /\ cancelReq' = [w \in Workers |->
                       cancelReq[w] \/ (w \in Handles /\ ~Terminated(w))]
    /\ IF \A w \in Handles : Terminated(w)
         THEN /\ task_handles' = << >>
              /\ spc' = [spc EXCEPT ![s] = "returned"]
              /\ stopped' = IF Len(tasks) > stopped THEN Len(tasks) ELSE stopped
              /\ UNCHANGED <<gathered, covered>>
         ELSE /\ spc' = [spc EXCEPT ![s] = "gather"]
              /\ gathered' = [gathered EXCEPT ![s] = Handles]
              /\ covered' = [covered EXCEPT ![s] = Len(tasks)]
              /\ UNCHANGED <<task_handles, stopped>>
    /\ running' = [w \in Workers |-> 0]
    /\ UNCHANGED <<now, tasks, wpc, cursor, seed>>
    /\ UNCHANGED nonSched

\* stop(), lines 30-34: every handle is cancelled and gathered.  With every
\* handle's task over (or no handle) gather is done at once, the list is
\* cleared and stop() returns; otherwise stop() is suspended in gather.
StopBegin(s) ==
    /\ spc[s] = "idle"
    /\ \A s2 \in Stops : s2 < s => spc[s2] # "idle"
    /\ cancelReq' = [w \in Workers |->
                       cancelReq[w] \/ (w \in Handles /\ ~Terminated(w))]
    /\ IF \A w \in Handles : Terminated(w)
         THEN /\ task_handles' = << >>
              /\ spc' = [spc EXCEPT ![s] = "returned"]
              /\ stopped' = IF Len(tasks) > stopped THEN Len(tasks) ELSE stopped
              /\ UNCHANGED <<gathered, covered>>
         ELSE /\ spc' = [spc EXCEPT ![s] = "gather"]
              /\ gathered' = [gathered EXCEPT ![s] = Handles]
              /\ covered' = [covered EXCEPT ![s] = Len(tasks)]
              /\ UNCHANGED <<task_handles, stopped>>
    /\ UNCHANGED <<now, tasks, wpc, cursor, seed, running>>
    /\ UNCHANGED nonSched

\* stop(), lines 33-34: every gathered task is over; the list is cleared and
\* stop() returns
StopEnd(s) ==
    /\ spc[s] = "gather"
    /\ \A w \in gathered[s] : Terminated(w)
    /\ task_handles' = << >>
    /\ spc' = [spc EXCEPT ![s] = "returned"]
    /\ gathered' = [gathered EXCEPT ![s] = {}]
    /\ covered' = [covered EXCEPT ![s] = 0]
    /\ stopped' = IF covered[s] > stopped THEN covered[s] ELSE stopped
    /\ UNCHANGED <<now, tasks, wpc, cursor, seed, cancelReq, running>>
    /\ UNCHANGED nonSched

NextSched ==
    \/ \E c \in TaskCronExprs : AddTask(c)
    \/ \E w \in Workers : WorkerStart(w)
    \/ \E w \in Workers : WorkerWake(w)
    \/ \E w \in Workers : PauseEnds(w)
    \/ \E w \in Workers : WorkerCancelled(w)
    \/ \E w \in Workers : JobEnds(w)
    \/ \E s \in Stops : StopBegin(s)
    \/ \E s \in Stops : StopEnd(s)
    \/ Tick

(* ============================ Jx3Plugin ============================== *)

\* event is not None
Interactive(e) == kind[e] = "command"

\* line 177: the subscriber list for a job, the event's origin for a command
Groups(e) == IF Interactive(e) THEN <<0>> ELSE subscriber

\* what await AsyncHttpUtil.post(...) can give at line 158: an exception of
\* _request ("raised"), None after the retries ("exhausted"), or the decoded
\* body, whose code is not 200 ("code") or is 200 with data the handler
\* raises on ("malformed") or data it accepts ("ok")
PostOutcomes == {"raised", "exhausted", "code", "malformed", "ok"}

\* the well-formed data of the endpoint the execution posts to
ApiData(k) ==
    IF k = "skill_info" THEN Ids
    ELSE IF k = "command" THEN {"payload"}
    ELSE ServerStates

\* last_server_status is None
NoStatus == [time |-> 0, status |-> 0]

Handled(n, new, stored, branch) ==
    [msgs |-> n, last |-> new, stored |-> stored, obs |-> branch]

\* the handler without the is_init check of lines 96-100
SkillInfoDataHandler_NoInitCheck(last, api_skill_id) ==
    IF last = api_skill_id
      THEN Handled(0, last, FALSE, "Suppressed")
      ELSE Handled(1, api_skill_id, TRUE, "Changed")

\* skill_info.data_handler, lines 92-103
SkillInfoDataHandler(last, api_skill_id) ==
    IF last = api_skill_id
      THEN Handled(0, last, FALSE, "Suppressed")
      ELSE IF last = None
             THEN Handled(0, api_skill_id, TRUE, "Baseline")
             ELSE Handled(1, api_skill_id, TRUE, "Changed")

\* the handler returning on the first observation before it stores
ServerOnDataHandler_NoStoreOnInit(last, data) ==
    IF last = NoStatus
      THEN Handled(0, last, FALSE, "Baseline")
      ELSE Handled(1, data, TRUE, "Changed")

\* server_on_status.data_handler, lines 114-126
ServerOnDataHandler(last, data) ==
    IF last = NoStatus
      THEN Handled(0, data, TRUE, "Baseline")
      ELSE Handled(1, data, TRUE, "Changed")

\* server_off_status.data_handler, lines 133-138
ServerOffDataHandler(last, data) == Handled(0, data, TRUE, "Stored")

\* the lambda of a command, lines 55, 65, 75: one rendered image
CommandHandler(data) == Handled(1, None, FALSE, "none")

InitPlug ==
    /\ last_skill_info_id = None
    /\ last_server_status = NoStatus
    /\ skillStores = 0
    /\ serverStores = 0
    /\ kind = [e \in Execs |-> "none"]
    /\ epc = [e \in Execs |-> "idle"]
    /\ fate = [e \in Execs |-> "pending"]
    /\ chain = [e \in Execs |-> 0]
    /\ sends = [e \in Execs |-> 0]
    /\ errMsgs = [e \in Execs |-> 0]
    /\ cause = [e \in Execs |-> "none"]
    /\ observed = [e \in Execs |-> None]
    /\ obs = [e \in Execs |-> "none"]
    /\ basis = [e \in Execs |-> 0]
    /\ overlapped = [e \in Execs |-> FALSE]

\* a job is spawned by its worker, or a command handler is called: the code
\* up to await AsyncHttpUtil.post (line 158).  server_on_status returns at
\* once when the record shows the server open (lines 109-112).
Start(e, k) ==
    /\ epc[e] = "idle"
    /\ \A e2 \in Execs : e2 < e => epc[e2] # "idle"
    /\ kind' = [kind EXCEPT ![e] = k]
    /\ IF /\ k = "server_on_status"
          /\ last_server_status # NoStatus
          /\ last_server_status.status = 1
         THEN /\ epc' = [epc EXCEPT ![e] = "done"]
              /\ fate' = [fate EXCEPT ![e] = "returned"]
         ELSE /\ epc' = [epc EXCEPT ![e] = "post"]
              /\ fate' = fate
    /\ UNCHANGED <<last_skill_info_id, last_server_status, skillStores,
                   serverStores, chain, sends, errMsgs, cause, observed, obs,
                   basis, overlapped>>
    /\ UNCHANGED nonPlug

\* _return_error_msg without the test of line 191: the error text is sent
\* whether or not there is an event
ReturnErrorMsg_Broadcast(e) ==
    /\ epc' = [epc EXCEPT ![e] = "error_send"]
    /\ errMsgs' = [errMsgs EXCEPT ![e] = @ + 1]
    /\ fate' = fate

\* _return_error_msg, lines 191-195, called at lines 161, 166 and 182: nothing
\* without an event, else one send_message with the error text is awaited
ReturnErrorMsg(e) ==
    IF Interactive(e)
      THEN /\ epc' = [epc EXCEPT ![e] = "error_send"]
           /\ errMsgs' = [errMsgs EXCEPT ![e] = @ + 1]
           /\ fate' = fate
      ELSE /\ epc' = [epc EXCEPT ![e] = "done"]
           /\ errMsgs' = errMsgs
           /\ fate' = [fate EXCEPT ![e] = "returned"]

\* the data_handler of the execution's kind applied to the record it reads
HandlerResult(e, d) ==
    IF kind[e] = "skill_info" THEN SkillInfoDataHandler(last_skill_info_id, d)
    ELSE IF kind[e] = "server_on_status" THEN ServerOnDataHandler(last_server_status, d)
    ELSE IF kind[e] = "server_off_status" THEN ServerOffDataHandler(last_server_status, d)
    ELSE CommandHandler(d)

OnSkill(e) == kind[e] = "skill_info"
OnServer(e) == kind[e] \in {"server_on_status", "server_off_status"}

\* lines 169-179 with well-formed data: the handler runs, reads and writes
\* the record of its stream, and with a non-empty list the first send_message
\* is awaited
ApplyHandler(e, d) ==
    LET h == HandlerResult(e, d) IN
    /\ observed' = [observed EXCEPT ![e] = d]
    /\ obs' = [obs EXCEPT ![e] = h.obs]
    /\ basis' = [basis EXCEPT ![e] = IF OnSkill(e) THEN skillStores
                                     ELSE IF OnServer(e) THEN serverStores
                                     ELSE 0]
    /\ last_skill_info_id' = IF OnSkill(e) THEN h.last ELSE last_skill_info_id
    /\ last_server_status' = IF OnServer(e) THEN h.last ELSE last_server_status
    /\ skillStores' = IF OnSkill(e) /\ h.stored THEN skillStores + 1 ELSE skillStores
    /\ serverStores' = IF OnServer(e) /\ h.stored THEN serverStores + 1
                       ELSE serverStores
    /\ overlapped' = [overlapped EXCEPT ![e] =
                         \E e2 \in Execs \ {e} :
                            kind[e2] = kind[e] /\ epc[e2] \in {"post", "send"}]
    /\ chain' = [chain EXCEPT ![e] = h.msgs]
    /\ IF h.msgs = 0
         THEN /\ epc' = [epc EXCEPT ![e] = "done"]
              /\ fate' = [fate EXCEPT ![e] = "returned"]
              /\ sends' = sends
         ELSE /\ epc' = [epc EXCEPT ![e] = "send"]
              /\ fate' = fate
              /\ sends' = [sends EXCEPT ![e] = 1]
    /\ UNCHANGED <<errMsgs, cause>>

\* a failed fetch that also resets both records
FetchFailed_ForgetsRecords(e, c) ==
    /\ cause' = [cause EXCEPT ![e] = c]
    /\ ReturnErrorMsg(e)
    /\ last_skill_info_id' = None
    /\ last_server_status' = NoStatus
    /\ UNCHANGED <<skillStores, serverStores, chain, sends, observed, obs,
                   basis, overlapped>>

\* lines 159-162 and 164-167: post raised, or the code of the result is not
\* 200; the success handler is not called and _return_error_msg is
FetchFailed(e, c) ==
    /\ cause' = [cause EXCEPT ![e] = c]
    /\ ReturnErrorMsg(e)
    /\ UNCHANGED <<last_skill_info_id, last_server_status, skillStores,
                   serverStores, chain, sends, observed, obs, basis, overlapped>>

\* lines 169-170 and 180-182: the success handler raises on the data it is
\* given.  The handler of skill_info or server_on_status raises either before
\* its assignment (the record is untouched) or, on a later observation, after
\* it while building the notification (lines 101-102, 124); the others raise
\* before they store anything.
HandlerRaises(e) ==
    /\ cause' = [cause EXCEPT ![e] = "handler"]
    /\ ReturnErrorMsg(e)
    /\ \/ UNCHANGED <<last_skill_info_id, last_server_status, skillStores,
                       serverStores>>
       \/ /\ kind[e] = "skill_info"
          /\ last_skill_info_id # None
          /\ \E d \in Ids \ {last_skill_info_id} : last_skill_info_id' = d
          /\ skillStores' = skillStores + 1
          /\ UNCHANGED <<last_server_status, serverStores>>
       \/ /\ kind[e] = "server_on_status"
          /\ last_server_status # NoStatus
          /\ \E d \in ServerStates : last_server_status' = d
          /\ serverStores' = serverStores + 1
          /\ UNCHANGED <<last_skill_info_id, skillStores>>
    /\ UNCHANGED <<chain, sends, observed, obs, basis, overlapped>>

\* result_handler, lines 157-179, from the return of post to the next await.
\* An exception of post and a code other than 200 go to _return_error_msg;
\* None is subscripted at line 164, outside the try, and the TypeError leaves
\* result_handler; an exception of the handler is caught at line 180.
PostDone(e) ==
    /\ epc[e] = "post"
    /\ \E r \in PostOutcomes :
          \/ /\ r = "raised"
             /\ FetchFailed(e, "raised")
          \/ /\ r = "exhausted"
             /\ cause' = [cause EXCEPT ![e] = "exhausted"]
             /\ epc' = [epc EXCEPT ![e] = "done"]
             /\ fate' = [fate EXCEPT ![e] = "raised"]
             /\ UNCHANGED <<last_skill_info_id, last_server_status, skillStores,
                            serverStores, chain, sends, errMsgs, observed, obs,
                            basis, overlapped>>
          \/ /\ r = "code"
             /\ FetchFailed(e, "code")
          \/ /\ r = "malformed"
             /\ HandlerRaises(e)
          \/ /\ r = "ok"
             /\ \E d \in ApiData(kind[e]) : ApplyHandler(e, d)
    /\ UNCHANGED kind
    /\ UNCHANGED nonPlug

\* the loop with the try inside it: a send_message that raises is logged and
\* the next group is sent to
SendDone_ContinuesAfterFailure(e) ==
    /\ epc[e] = "send"
    /\ \/ /\ sends[e] < Len(Groups(e))
          /\ sends' = [sends EXCEPT ![e] = @ + 1]
          /\ \E c \in {cause[e], "delivery"} : cause' = [cause EXCEPT ![e] = c]
          /\ UNCHANGED <<epc, fate, errMsgs>>
       \/ /\ sends[e] >= Len(Groups(e))
          /\ epc' = [epc EXCEPT ![e] = "done"]
          /\ fate' = [fate EXCEPT ![e] = "returned"]
          /\ UNCHANGED <<sends, errMsgs, cause>>
    /\ UNCHANGED <<last_skill_info_id, last_server_status, skillStores,
                   serverStores, kind, chain, observed, obs, basis, overlapped>>
    /\ UNCHANGED nonPlug

\* lines 178-183: a send_message of the loop returns, and the next group is
\* sent to or the loop is over; or it raises, and the except clause calls
\* _return_error_msg
SendDone(e) ==
    /\ epc[e] = "send"
    /\ \/ /\ sends[e] < Len(Groups(e))
          /\ sends' = [sends EXCEPT ![e] = @ + 1]
          /\ UNCHANGED <<epc, fate, errMsgs, cause>>
       \/ /\ sends[e] >= Len(Groups(e))
          /\ epc' = [epc EXCEPT ![e] = "done"]
          /\ fate' = [fate EXCEPT ![e] = "returned"]
          /\ UNCHANGED <<sends, errMsgs, cause>>
       \/ /\ cause' = [cause EXCEPT ![e] = "delivery"]
          /\ ReturnErrorMsg(e)
          /\ sends' = sends
    /\ UNCHANGED <<last_skill_info_id, last_server_status, skillStores,
                   serverStores, kind, chain, observed, obs, basis, overlapped>>
    /\ UNCHANGED nonPlug

\* line 195: the send_message of _return_error_msg returns or raises
ErrorSendDone(e) ==
    /\ epc[e] = "error_send"
    /\ epc' = [epc EXCEPT ![e] = "done"]
    /\ \E f \in {"returned", "raised"} : fate' = [fate EXCEPT ![e] = f]
    /\ UNCHANGED <<last_skill_info_id, last_server_status, skillStores,
                   serverStores, kind, chain, sends, errMsgs, cause, observed,
                   obs, basis, overlapped>>
    /\ UNCHANGED nonPlug

NextPlug ==
    \/ \E e \in Execs, k \in Kinds : Start(e, k)
    \/ \E e \in Execs : PostDone(e)
    \/ \E e \in Execs : SendDone(e)
    \/ \E e \in Execs : ErrorSendDone(e)

(* ========================== specifications =========================== *)

Init == InitHttp /\ InitSched /\ InitPlug

SpecHttp == Init /\ [][NextHttp]_vars

SpecSched == Init /\ [][NextSched]_vars

SpecPlug == Init /\ [][NextPlug]_vars

\* the event loop runs every task that is ready: a task cancel() was called
\* on is resumed with the CancelledError, and a stop() whose gathered tasks
\* are all over is resumed
FairSched ==
    /\ \A w \in Workers : WF_vars(WorkerCancelled(w))
    /\ \A s \in Stops : WF_vars(StopEnd(s))

\* the scheduler within one minute of the clock: no sleep ends, no job is
\* spawned
NextStop ==
    \/ \E c \in TaskCronExprs : AddTask(c)
    \/ \E w \in Workers : WorkerStart(w)
    \/ \E w \in Workers : PauseEnds(w)
    \/ \E w \in Workers : WorkerCancelled(w)
    \/ \E s \in Stops : StopBegin(s)
    \/ \E s \in Stops : StopEnd(s)

SpecStopFair == Init /\ [][NextStop]_vars /\ FairSched

SpecSchedFair == Init /\ [][NextSched]_vars /\ FairSched

\* the scheduler with every expression of CronExprs, and stop() never called
NextCron ==
    \/ \E c \in CronExprs : AddTask(c)
    \/ \E w \in Workers : WorkerStart(w)
    \/ \E w \in Workers : WorkerWake(w)
    \/ \E w \in Workers : PauseEnds(w)
    \/ \E w \in Workers : JobEnds(w)
    \/ Tick

SpecCron == Init /\ [][NextCron]_vars

(* ---------------------- claims on AsyncHttpUtil ----------------------- *)

InFlight(r) == rpc[r] \in {"send", "body", "sleep"}

\* C1: no request makes more than 3 HTTP attempts, and the retry counter of a
\* request equals the number of its own retryable failures whose backoff
\* sleep is over, whatever the other requests do.
C1_AttemptsBoundedPerRequest ==
    \A r \in Requests :
        /\ attempts[r] <= 3
        /\ retries[r] <= 3
        /\ retries[r] = failures[r] - (IF rpc[r] = "sleep" THEN 1 ELSE 0)
        /\ attempts[r] <= failures[r] + 1

\* a request out of retries while another one is on its first attempt
C1_Witness ==
    \E r1, r2 \in Requests :
        /\ attempts[r1] = 3 /\ failures[r1] = 3 /\ rpc[r1] = "done"
        /\ rpc[r2] = "send" /\ attempts[r2] = 1 /\ retries[r2] = 0

C3_ExhaustionReturnsNone ==
    \A r \in Requests :
        failures[r] = 3 =>
            /\ rpc[r] \in {"sleep", "done"}
            /\ attempts[r] = 3
            /\ rpc[r] = "done" => result[r] = Returned(None)

C3_Witness ==
    \E r \in Requests :
        failures[r] = 3 /\ rpc[r] = "done" /\ result[r] = Returned(None)

\* C9: at most one session is open at any time, and as long as close() has
\* not been called the requests made so far, however many run at once, have
\* constructed exactly one session.
C9_OneSharedSession ==
    /\ Cardinality(open) <= 1
    /\ closes = 0 =>
          created = (IF \E r \in Requests : rpc[r] # "idle" THEN 1 ELSE 0)

\* two requests in flight at once, before any close()
C9_Witness ==
    \E r1, r2 \in Requests :
        /\ r1 # r2 /\ InFlight(r1) /\ InFlight(r2)
        /\ closes = 0 /\ created = 1 /\ open = {1}

\* C16: the delay slept after the failure of attempt index 0, 1, 2 is at
\* least 500, 1000, 2000 ms and less than 100 ms more, and a request that has
\* begun its third attempt has slept at least 1500 ms of backoff.
C16_BackoffDelays ==
    \A r \in Requests :
        /\ (rpc[r] = "sleep") =>
              /\ retries[r] = attempts[r] - 1
              /\ retries[r] \in {0, 1, 2}
              /\ (retries[r] = 0) => (500 <= delay[r] /\ delay[r] < 600)
              /\ (retries[r] = 1) => (1000 <= delay[r] /\ delay[r] < 1100)
              /\ (retries[r] = 2) => (2000 <= delay[r] /\ delay[r] < 2100)
        /\ (attempts[r] >= 3) => waited[r] >= 1500

\* a request got its body on the third attempt, after two backoff sleeps
C16_Witness ==
    \E r \in Requests :
        /\ attempts[r] = 3 /\ sleeps[r] = 2
        /\ result[r].kind = "returned" /\ result[r].value \in Bodies
        /\ waited[r] >= 1500

\* C17: a request whose attempt met a failure that is neither retryable nor a
\* bad status is over with that exception raised: the attempt was its last,
\* no backoff sleep followed the failure, and the result is not None.
C17_UnexpectedFailureRaised ==
    \A r \in Requests :
        (met[r] = "unexpected") =>
            /\ rpc[r] = "done"
            /\ result[r] = Raised("Exception")
            /\ attempts[r] = retries[r] + 1
            /\ sleeps[r] = failures[r]
            /\ sleeps[r] = retries[r]
            /\ delay[r] = 0

\* after one retryable failure and its sleep, the second attempt met an
\* unexpected failure, which was raised
C17_Witness ==
    \E r \in Requests :
        /\ met[r] = "unexpected" /\ result[r] = Raised("Exception")
        /\ attempts[r] = 2 /\ sleeps[r] = 1

C5_InvalidCronRejected ==
    /\ \A i \in 1..Len(tasks) : ValidCron(tasks[i].cron_expr)
    /\ \A w \in Workers : wpc[w] # "none" => ValidCron(tasks[w].cron_expr)

\* C10: once a call of stop() has returned, no worker registered before that
\* call spawns another execution of its job.
C10_NoDispatchAfterStop ==
    [][\A w \in Workers : w <= stopped => running'[w] <= running[w]]_vars

\* C11: every worker stop() has cancelled ends, whether it had not run yet,
\* was sleeping until its fire time or was in its pause after an error, and
\* every stop() waiting in gather returns.
C11_StopTerminates ==
    /\ \A w \in Workers : cancelReq[w] ~> Terminated(w)
    /\ \A s \in Stops : (spc[s] = "gather") ~> (spc[s] = "returned")

\* a stop() that waited has returned; one worker left its loop from the sleep
\* and another was ended by the CancelledError
C11_Witness ==
    /\ \E s \in Stops : spc[s] = "returned"
    /\ stopped >= 2
    /\ \E w1, w2 \in Workers : wpc[w1] = "returned" /\ wpc[w2] = "cancelled"

\* C12: a fire time is the earliest instant matching the expression after
\* the cursor it was computed from; the first is computed from the worker's
\* start time, each later one from the fire time before it, and the cursor
\* never moves back.
C12_FireTimeIsNextOccurrence ==
    [][\A w \in Workers :
          (seed'[w] >= 0) =>
              LET c == tasks'[w].cron_expr IN
              /\ cursor'[w] > seed'[w]
              /\ Matches(c, cursor'[w])
              /\ \A u \in (seed'[w] + 1)..(cursor'[w] - 1) : ~Matches(c, u)
              /\ (wpc[w] = "created") => seed'[w] = now
              /\ (wpc[w] # "created") => cursor'[w] >= cursor[w]
              /\ (wpc[w] # "created" /\ seed'[w] # seed[w]) =>
                    \/ seed'[w] = cursor[w]
                    \/ /\ seed'[w] > cursor[w]
                       /\ seed'[w] <= now
                       /\ Matches(c, seed'[w])
      ]_vars

\* a worker started at minute 0 on "every even minute" sleeps until minute 2,
\* and one on "every minute" has fired and computed minute 2 from minute 1
C12_Witness ==
    \E w1, w2 \in 1..Len(tasks) :
        /\ tasks[w1].cron_expr = "*/2 * * * *"
        /\ wpc[w1] = "sleep" /\ seed[w1] = 0 /\ cursor[w1] = 2
        /\ tasks[w2].cron_expr = "* * * * *"
        /\ wpc[w2] = "sleep" /\ seed[w2] = 1 /\ cursor[w2] = 2
        /\ running[w2] >= 1

\* C13: executions of its job in progress never hold the worker back: with
\* any of them running, a worker whose sleep is over can spawn the next one
\* and a worker whose pause is over can go round its loop.
C13_WorkerNotBlockedByJob ==
    \A w \in Workers :
        running[w] > 0 =>
            /\ (wpc[w] = "sleep" /\ ~cancelReq[w] /\ now >= cursor[w]) =>
                  ENABLED WorkerWake(w)
            /\ (wpc[w] = "pause" /\ ~cancelReq[w]) => ENABLED PauseEnds(w)

\* two executions of one job are in progress at once, and its worker sleeps
\* until the next fire time
C13_Witness ==
    \E w \in Workers : running[w] >= 2 /\ wpc[w] = "sleep" /\ cursor[w] > now

\* C14: a worker that is in its loop (asleep until a fire time, or in the
\* pause after an error) ends only when cancel() was called on it; no error of
\* the loop ends it, and the end of an execution of its job leaves it where
\* it is.
C14_WorkerEndsOnlyByCancel ==
    [][\A w \in Workers :
          (wpc[w] \in {"sleep", "pause"}) =>
              /\ wpc'[w] \in {"sleep", "pause", "returned", "cancelled"}
              /\ (wpc'[w] \in {"returned", "cancelled"}) => cancelReq[w]
              /\ (running'[w] < running[w]) =>
                    (wpc'[w] = wpc[w] /\ cursor'[w] = cursor[w])
      ]_vars

\* a worker that has fired at least once met an error in its loop and is in
\* the pause, not cancelled, while an execution of its job is in progress
C14_Witness ==
    \E w \in Workers :
        wpc[w] = "pause" /\ ~cancelReq[w] /\ seed[w] >= 1 /\ running[w] >= 1

\* C19: no step of stop() and no delivery of a cancellation to a worker
\* touches the executions in progress: they are as many after the step as
\* before it.
C19_StopLeavesJobsRunning ==
    [][((\E s \in Stops : spc'[s] # spc[s])
           \/ (\E w \in Workers : cancelReq[w] /\ ~cancelReq'[w])) =>
          running' = running
      ]_vars

\* stop() has returned and the worker is over, while an execution of its job
\* spawned before is still in progress and free to go on
C19_Witness ==
    \E w \in Workers, s \in Stops :
        /\ spc[s] = "returned" /\ stopped >= w
        /\ wpc[w] = "returned"
        /\ running[w] >= 1
        /\ ENABLED JobEnds(w)

(* ------------------------ claims on Jx3Plugin ------------------------- *)

\* C4: a command that met a failure (an exception of the HTTP client, the
\* retries used up, a code other than 200, an error of the handler or of the
\* delivery) has sent exactly one error message when it is over.
C4_OneErrorMessagePerFailure ==
    \A e \in Execs :
        (Interactive(e) /\ epc[e] = "done" /\ cause[e] # "none") => errMsgs[e] = 1

\* C6: when the data_handler of server_on_status is given the pair the record
\* already holds, nothing is to be sent and the record stays as it is.
C6_EqualStatusSuppressed ==
    [][\A e \in Execs :
          (/\ kind[e] = "server_on_status"
           /\ epc[e] = "post"
           /\ obs'[e] # "none"
           /\ observed'[e] = last_server_status) =>
              /\ last_server_status' = last_server_status
              /\ chain'[e] = 0
              /\ sends'[e] = 0
      ]_vars

\* C7: when the data_handler of skill_info is given an id: with no id stored
\* the id is stored and nothing is sent; with the same id stored nothing
\* changes and nothing is sent; with another id stored the new id is stored
\* and one notification is returned, whose sending begins, and which goes to
\* no subscriber twice.
C7_SkillInfoObservation ==
    [][\A e \in Execs :
          /\ (kind[e] = "skill_info" /\ epc[e] = "post" /\ obs'[e] # "none") =>
                LET v == last_skill_info_id
                    x == observed'[e]
                IN  /\ x \in Ids
                    /\ v = None =>
                          /\ last_skill_info_id' = x
                          /\ chain'[e] = 0 /\ sends'[e] = 0 /\ epc'[e] = "done"
                    /\ v = x =>
                          /\ last_skill_info_id' = v
                          /\ chain'[e] = 0 /\ sends'[e] = 0 /\ epc'[e] = "done"
                    /\ (v # None /\ v # x) =>
                          /\ last_skill_info_id' = x
                          /\ chain'[e] = 1 /\ sends'[e] = 1 /\ epc'[e] = "send"
          /\ kind[e] = "skill_info" => sends'[e] <= chain'[e] * NumSubscribers
      ]_vars

\* a first observation stored an id, and a later one with another id was
\* notified to every subscriber
C7_Witness ==
    \E e1, e2 \in Execs :
        /\ kind[e1] = "skill_info" /\ obs[e1] = "Baseline" /\ sends[e1] = 0
        /\ kind[e2] = "skill_info" /\ obs[e2] = "Changed"
        /\ epc[e2] = "done" /\ sends[e2] = NumSubscribers
        /\ last_skill_info_id = observed[e2]

Stream(e) ==
    IF kind[e] = "skill_info" THEN "skill"
    ELSE IF kind[e] = "server_on_status" THEN "server"
    ELSE "none"

C15_JobFailuresAreSilent ==
    [][\A e \in Execs :
          (kind'[e] \in Kinds /\ ~Interactive(e)') =>
              /\ errMsgs'[e] = 0
              /\ epc'[e] # "error_send"
              /\ (cause'[e] # cause[e]) =>
                    /\ epc'[e] = "done"
                    /\ sends'[e] = sends[e]
                    /\ wpc' = wpc
                    /\ cancelReq' = cancelReq
                    /\ task_handles' = task_handles
      ]_vars

\* one job was ended by the TypeError after the retries were used up, another
\* went through _return_error_msg on a code other than 200; neither sent an
\* error message
C15_Witness ==
    \E e1, e2 \in Execs :
        /\ kind[e1] = "skill_info" /\ epc[e1] = "done"
        /\ cause[e1] = "exhausted" /\ fate[e1] = "raised" /\ errMsgs[e1] = 0
        /\ kind[e2] = "server_on_status" /\ epc[e2] = "done"
        /\ cause[e2] = "code" /\ fate[e2] = "returned" /\ errMsgs[e2] = 0

\* C20: the step in which a fetch fails (post raises, the retries are used
\* up, or the code is not 200) leaves both records as they are, and a record
\* changes only in a step that hands a result with code 200 to a success
\* handler.
C20_FailedFetchKeepsRecords ==
    [][/\ \A e \in Execs :
             (cause'[e] # cause[e]
                 /\ cause'[e] \in {"raised", "exhausted", "code"}) =>
                   /\ last_skill_info_id' = last_skill_info_id
                   /\ last_server_status' = last_server_status
       /\ (last_skill_info_id' # last_skill_info_id
              \/ last_server_status' # last_server_status) =>
             \E e \in Execs :
                 /\ epc[e] = "post" /\ epc'[e] # "post"
                 /\ cause'[e] \in {"none", "handler"}
      ]_vars

\* an id is stored, and a later skill_info execution whose fetch failed is
\* over with the id still in place
C20_Witness ==
    \E e1, e2 \in Execs :
        /\ kind[e1] = "skill_info" /\ obs[e1] = "Baseline"
        /\ kind[e2] = "skill_info" /\ epc[e2] = "done"
        /\ cause[e2] \in {"raised", "exhausted", "code"}
        /\ skillStores = 1 /\ last_skill_info_id = observed[e1]

\* C21: while the record shows status 1, no server_on_status execution that
\* comes back from its poll changes the record or returns a notification.
C21_NoCheckOnceOpen ==
    [][(last_server_status.status = 1) =>
          \A e \in Execs :
              (kind[e] = "server_on_status" /\ epc[e] = "post"
                  /\ epc'[e] # "post") =>
                    /\ last_server_status' = last_server_status
                    /\ chain'[e] = 0
                    /\ sends'[e] = 0
      ]_vars

C23_SessionCheckedOncePerRequest ==
    [][/\ (created' # created) =>
             \E r \in Requests : rpc[r] = "idle" /\ rpc'[r] # "idle"
       /\ \A r \in Requests :
             (rpc[r] = "sleep" /\ rpc'[r] # "sleep") =>
                 /\ session' = session
                 /\ created' = created
                 /\ open' = open
                 /\ (session \notin open /\ MayAttempt(retries[r] + 1)) =>
                       /\ attempts'[r] = attempts[r] + 1
                       /\ rpc'[r] = "done"
                       /\ result'[r] = Raised("RuntimeError")
                       /\ sleeps'[r] = sleeps[r]
      ]_vars

\* close() ran during a backoff sleep of the one request that created the
\* session; its retry met the closed session and the request raised
C23_Witness ==
    \E r \in Requests :
        /\ rpc[r] = "done" /\ result[r] = Raised("RuntimeError")
        /\ attempts[r] >= 2 /\ sleeps[r] >= 1 /\ sleeps[r] = failures[r]
        /\ closes = 1 /\ created = 1 /\ session = 1 /\ session \notin open

\* C24: a request has begun one backoff sleep for each of its retryable
\* failures and has completed as many sleeps as its retry counter says; a
\* request that returned None has made 3 attempts and completed 3 sleeps of
\* 500, 1000 and 2000 ms (jitter aside), and during the third sleep the third
\* attempt was its last.
C24_SleepAfterEveryFailure ==
    \A r \in Requests :
        /\ sleeps[r] = failures[r]
        /\ sleeps[r] = IF rpc[r] = "sleep" THEN retries[r] + 1 ELSE retries[r]
        /\ attempts[r] <= max_retries
        /\ (rpc[r] = "sleep" /\ sleeps[r] = 3) =>
              (attempts[r] = 3 /\ delay[r] >= 2000 /\ waited[r] = 1500)
        /\ (result[r] = Returned(None)) =>
              /\ attempts[r] = 3
              /\ sleeps[r] = 3
              /\ retries[r] = 3
              /\ waited[r] = 3500

\* one request is in its third sleep and another has come out of its third
\* sleep with None
C24_Witness ==
    \E r1, r2 \in Requests :
        /\ rpc[r1] = "sleep" /\ sleeps[r1] = 3 /\ attempts[r1] = 3
        /\ rpc[r2] = "done" /\ result[r2] = Returned(None)
        /\ sleeps[r2] = 3 /\ waited[r2] = 3500

====
